---- MODULE Spec2Model ----
(***************************************************************************)
(* Multi-level feedback queue scheduler simulator (mlqfs.c).               *)
(* The state is the four queues, the clock, the null process, the output   *)
(* stream and the position of main() in its tick loop.  One action per     *)
(* function called from main().                                            *)
(***************************************************************************)
EXTENDS Integers, Sequences, FiniteSets, TLC

(***************************************************************************)
(* Bounds of the model.                                                    *)
(***************************************************************************)
MaxLines == 2        \* input lines read by the loader
LateArrival == 10    \* the non-zero arrival time an input line may carry

(***************************************************************************)
(* Program constants.                                                      *)
(***************************************************************************)
MAX_PRIORITY == 0
MIN_PRIORITY == 2
CharX == 88          \* the character constant 'X'
QUANTUM_THRESHOLD == <<10, 30, 100>>
DEMOTION_THRESHOLD == <<1, 2, CharX>>
PROMOTION_THRESHOLD == <<CharX, 2, 1>>

\* C arrays are indexed from 0, TLA+ sequences from 1.
At(table, priority) == table[priority + 1]

(***************************************************************************)
(* Records.                                                                *)
(***************************************************************************)
Behaviour(c, i, r) == [cpu_time |-> c, io_time |-> i, repeats |-> r]

\* init_process: every counter zero, an empty behaviour queue.
init_process ==
    [pid |-> 0, priority_cache |-> 0, behaviours |-> <<>>, arrival_time |-> 0,
     units |-> 0, quanta |-> 0, progress |-> 0, promotion |-> 0,
     demotion |-> 0, total_cpu_usage |-> 0]

\* static Process null = { .pid = 0, .total_cpu_usage = 0 }
NullProcess == init_process

(***************************************************************************)
(* The priority queue container (prioque): a list of (info, priority)      *)
(* kept in nondecreasing priority order, first in first out among equal    *)
(* priorities.                                                             *)
(***************************************************************************)
queue_length(q) == Len(q)

add_to_queue(q, element, priority) ==
    LET k == Cardinality({i \in 1..Len(q) : q[i].priority <= priority})
    IN  SubSeq(q, 1, k) \o <<[info |-> element, priority |-> priority]>>
          \o SubSeq(q, k + 1, Len(q))

remove_from_front(q) == Tail(q)

peek_at_current(q) == q[1].info

current_priority(q) == q[1].priority

update_current(q, element) == [q EXCEPT ![1].info = element]

\* the pids held by a queue, and the position / entry of a pid in it
PidsOf(q) == {q[i].info.pid : i \in 1..Len(q)}
PosOf(q, p) == CHOOSE i \in 1..Len(q) : q[i].info.pid = p
EntryOf(q, p) == q[PosOf(q, p)]

(***************************************************************************)
(* The input stream: lines "arrival pid cpu_time io_time repeats".         *)
(***************************************************************************)
Behaviours ==
    { Behaviour(3, 6, 1), Behaviour(10, 0, 2), Behaviour(0, 1, 1),
      Behaviour(45, 1, 2), Behaviour(75, 2, 1), Behaviour(175, 0, 0) }

\* the behaviours and arrival times tried on a third and later line
ShortBehaviours == { Behaviour(3, 6, 1) }

Arrivals == {0, LateArrival}

BehavioursAt(i) == IF i <= 2 THEN Behaviours ELSE ShortBehaviours

ArrivalsAt(i) == IF i <= 2 THEN Arrivals ELSE {0}

Line(a, p, b) == [arrival |-> a, pid |-> p, cpu_time |-> b.cpu_time,
                  io_time |-> b.io_time, repeats |-> b.repeats]

\* Lines of one process are consecutive; processes are numbered 1, 2, ...
\* in input order (pids are unique and nonzero).
Inputs ==
    UNION { { [i \in 1..n |->
                 Line(arr[i],
                      1 + Cardinality({j \in 2..i : fresh[j]}),
                      beh[i])] :
              arr \in {a \in [1..n -> Arrivals] :
                         \A i \in 1..n : a[i] \in ArrivalsAt(i)},
              beh \in {b \in [1..n -> Behaviours] :
                         \A i \in 1..n : b[i] \in BehavioursAt(i)},
              fresh \in [2..n -> BOOLEAN] } : n \in 1..MaxLines }

RECURSIVE LoadLoop(_, _, _, _, _)
LoadLoop(lines, i, process, is_first, aq) ==
    IF i > Len(lines)
    THEN add_to_queue(aq, process, process.arrival_time)
    ELSE LET l == lines[i]
             flush == ~is_first /\ process.pid # l.pid
             aq1 == IF flush
                    THEN add_to_queue(aq, process, process.arrival_time)
                    ELSE aq
             p1 == IF flush THEN init_process ELSE process
             p2 == [p1 EXCEPT !.pid = l.pid,
                              !.arrival_time = l.arrival,
                              !.behaviours =
                                  Append(@, Behaviour(l.cpu_time, l.io_time,
                                                      l.repeats))]
         IN  LoadLoop(lines, i + 1, p2, FALSE, aq1)

load_process_descriptions(lines) ==
    LoadLoop(lines, 1, init_process, TRUE, <<>>)

(***************************************************************************)
(* State.                                                                  *)
(***************************************************************************)
VARIABLES
    input,          \* the lines of the input stream
    arrival_queue,  \* processes waiting for their arrival time
    ready_queue,    \* processes waiting for CPU time
    io_queue,       \* processes in I/O
    logs,           \* terminated processes, for the report
    null,           \* the null process
    mlqfs_clock,    \* clock counter
    running,        \* the process selected by the last schedule_processes
    output,         \* the events written to the output stream, in order
    pc,             \* position of main()
    ticks,          \* history: loop iterations whose run step is done
    granted,        \* history: pid -> CPU ticks granted since its last RUN
    run_level,      \* history: pid -> priority of its last RUN event
    halts,          \* history: pid -> quantum expiries at its level since
                    \*          it entered the level or was sent to I/O
    yields          \* history: pid -> I/O dispatches at its level since
                    \*          it entered the level or was halted

vars == <<input, arrival_queue, ready_queue, io_queue, logs, null,
          mlqfs_clock, running, output, pc, ticks, granted, run_level,
          halts, yields>>

Pids == 1..MaxLines

(***************************************************************************)
(* Output events.  "by" records which statement printed a QUEUED line.     *)
(***************************************************************************)
Event(kind, pid, level, time, n, by) ==
    [kind |-> kind, pid |-> pid, level |-> level, time |-> time,
     n |-> n, by |-> by]

\* the events a step appended to the output stream
Emitted(old, new) == SubSeq(new, Len(old) + 1, Len(new))

(***************************************************************************)
(* The scheduler's functions.  Each takes and returns the part of the      *)
(* state it touches: st = [ready, io, logs, out, running].                 *)
(***************************************************************************)
\* mutant: the I/O queue is left out of the activity test
scheduler_is_active_IgnoresIo ==
    \/ queue_length(ready_queue) > 0
    \/ queue_length(arrival_queue) > 0

scheduler_is_active ==
    \/ queue_length(ready_queue) > 0
    \/ queue_length(io_queue) > 0
    \/ queue_length(arrival_queue) > 0

\* mutant: the quantum test is off by one
QuantumExpired_Strict(process, priority) ==
    process.quanta > At(QUANTUM_THRESHOLD, priority)

\* mutant: a process whose burst is complete is spared the halt
QuantumExpired_UnlessBurstOver(process, priority) ==
    /\ process.quanta >= At(QUANTUM_THRESHOLD, priority)
    /\ process.units < Head(process.behaviours).cpu_time

\* the quantum test of check_top_process_quanta
QuantumExpired(process, priority) ==
    process.quanta >= At(QUANTUM_THRESHOLD, priority)

\* mutant: both conditions are required for the RUN line
StartsCycle_Both(process, last_run) ==
    process.quanta = 0 /\ process.pid # last_run.pid

\* "process is starting a new cpu cycle": the test that guards the RUN line
StartsCycle(process, last_run) ==
    process.quanta = 0 \/ process.pid # last_run.pid

\* mutant: the total is not counted
Charge_UnitsOnly(process) ==
    [process EXCEPT !.units = @ + 1]

\* the counter updates of run_top_process
Charge(process) ==
    [process EXCEPT !.units = @ + 1, !.total_cpu_usage = @ + 1]

\* mutant: the unit counter is not reset when the burst ends
send_process_to_io_KeepsUnits(st, clock) ==
    LET priority == current_priority(st.ready)
        process == peek_at_current(st.ready)
        behaviour == Head(process.behaviours)
        promoted == process.promotion + 1 >= At(PROMOTION_THRESHOLD, priority)
        priority1 == IF promoted /\ priority # MAX_PRIORITY
                     THEN priority - 1 ELSE priority
        p1 == [process EXCEPT
                 !.promotion = IF promoted THEN 0 ELSE @ + 1,
                 !.demotion = 0,
                 !.priority_cache = priority1,
                 !.progress = @ + 1,
                 !.quanta = 0]
    IN  [st EXCEPT
           !.ready = remove_from_front(@),
           !.io = add_to_queue(@, p1, clock + behaviour.io_time),
           !.out = Append(@, Event("I/O", process.pid, 0, clock, 0, "io"))]

\* mutant: the priority is stored before the promotion is applied
send_process_to_io_StaleCache(st, clock) ==
    LET priority == current_priority(st.ready)
        process == peek_at_current(st.ready)
        behaviour == Head(process.behaviours)
        promoted == process.promotion + 1 >= At(PROMOTION_THRESHOLD, priority)
        p1 == [process EXCEPT
                 !.promotion = IF promoted THEN 0 ELSE @ + 1,
                 !.demotion = 0,
                 !.priority_cache = priority,
                 !.progress = @ + 1,
                 !.units = 0,
                 !.quanta = 0]
    IN  [st EXCEPT
           !.ready = remove_from_front(@),
           !.io = add_to_queue(@, p1, clock + behaviour.io_time),
           !.out = Append(@, Event("I/O", process.pid, 0, clock, 0, "io"))]

send_process_to_io(st, clock) ==
    LET priority == current_priority(st.ready)
        process == peek_at_current(st.ready)
        behaviour == Head(process.behaviours)
        promoted == process.promotion + 1 >= At(PROMOTION_THRESHOLD, priority)
        priority1 == IF promoted /\ priority # MAX_PRIORITY
                     THEN priority - 1 ELSE priority
        p1 == [process EXCEPT
                 !.promotion = IF promoted THEN 0 ELSE @ + 1,
                 !.demotion = 0,
                 !.priority_cache = priority1,
                 !.progress = @ + 1,
                 !.units = 0,
                 !.quanta = 0]
    IN  [st EXCEPT
           !.ready = remove_from_front(@),
           !.io = add_to_queue(@, p1, clock + behaviour.io_time),
           !.out = Append(@, Event("I/O", process.pid, 0, clock, 0, "io"))]

\* mutant: the demotion threshold must be exceeded, not met
halt_process_Strict(st, clock) ==
    LET priority == current_priority(st.ready)
        process == peek_at_current(st.ready)
        demoted == process.demotion + 1 > At(DEMOTION_THRESHOLD, priority)
        priority1 == IF demoted /\ priority # MIN_PRIORITY
                     THEN priority + 1 ELSE priority
        p1 == [process EXCEPT
                 !.demotion = IF demoted THEN 0 ELSE @ + 1,
                 !.promotion = 0,
                 !.quanta = 0]
    IN  [st EXCEPT
           !.ready = add_to_queue(remove_from_front(@), p1, priority1),
           !.out = Append(@, Event("QUEUED", process.pid, priority1 + 1,
                                   clock, 0, "halt"))]

\* mutant: the QUEUED line carries the level the process is leaving
halt_process_LogsOldLevel(st, clock) ==
    LET priority == current_priority(st.ready)
        process == peek_at_current(st.ready)
        demoted == process.demotion + 1 >= At(DEMOTION_THRESHOLD, priority)
        priority1 == IF demoted /\ priority # MIN_PRIORITY
                     THEN priority + 1 ELSE priority
        p1 == [process EXCEPT
                 !.demotion = IF demoted THEN 0 ELSE @ + 1,
                 !.promotion = 0,
                 !.quanta = 0]
    IN  [st EXCEPT
           !.ready = add_to_queue(remove_from_front(@), p1, priority1),
           !.out = Append(@, Event("QUEUED", process.pid, priority + 1,
                                   clock, 0, "halt"))]

\* mutant: the quantum counter is not cleared
halt_process_KeepsQuanta(st, clock) ==
    LET priority == current_priority(st.ready)
        process == peek_at_current(st.ready)
        demoted == process.demotion + 1 >= At(DEMOTION_THRESHOLD, priority)
        priority1 == IF demoted /\ priority # MIN_PRIORITY
                     THEN priority + 1 ELSE priority
        p1 == [process EXCEPT
                 !.demotion = IF demoted THEN 0 ELSE @ + 1,
                 !.promotion = 0]
    IN  [st EXCEPT
           !.ready = add_to_queue(remove_from_front(@), p1, priority1),
           !.out = Append(@, Event("QUEUED", process.pid, priority1 + 1,
                                   clock, 0, "halt"))]

halt_process(st, clock) ==
    LET priority == current_priority(st.ready)
        process == peek_at_current(st.ready)
        demoted == process.demotion + 1 >= At(DEMOTION_THRESHOLD, priority)
        priority1 == IF demoted /\ priority # MIN_PRIORITY
                     THEN priority + 1 ELSE priority
        p1 == [process EXCEPT
                 !.demotion = IF demoted THEN 0 ELSE @ + 1,
                 !.promotion = 0,
                 !.quanta = 0]
    IN  [st EXCEPT
           !.ready = add_to_queue(remove_from_front(@), p1, priority1),
           !.out = Append(@, Event("QUEUED", process.pid, priority1 + 1,
                                   clock, 0, "halt"))]

\* mutant: the terminated process is not recorded in logs
terminate_process_Drops(st, clock) ==
    LET process == peek_at_current(st.ready)
    IN  [st EXCEPT
           !.ready = remove_from_front(@),
           !.out = Append(@, Event("FINISHED", process.pid, 0, clock, 0,
                                   "terminate"))]

\* mutant: the terminated process is filed in logs under its pid
terminate_process_KeyedByPid(st, clock) ==
    LET process == peek_at_current(st.ready)
        p1 == [process EXCEPT !.behaviours = <<>>]
    IN  [st EXCEPT
           !.ready = remove_from_front(@),
           !.logs = add_to_queue(@, p1, process.pid),
           !.out = Append(@, Event("FINISHED", process.pid, 0, clock, 0,
                                   "terminate"))]

terminate_process(st, clock) ==
    LET process == peek_at_current(st.ready)
        p1 == [process EXCEPT !.behaviours = <<>>]
    IN  [st EXCEPT
           !.ready = remove_from_front(@),
           !.logs = add_to_queue(@, p1, process.total_cpu_usage),
           !.out = Append(@, Event("FINISHED", process.pid, 0, clock, 0,
                                   "terminate"))]

\* mutant: the behaviour is left only after one more repeat
BehaviourOver_Strict(process, behaviour) ==
    process.progress > behaviour.repeats

\* the test that moves a process on to its next behaviour
BehaviourOver(process, behaviour) ==
    process.progress >= behaviour.repeats

RECURSIVE ScheduleLoop(_, _)
ScheduleLoop(st, clock) ==
    IF queue_length(st.ready) = 0
    THEN [st EXCEPT !.running = NullProcess]
    ELSE
      LET process == peek_at_current(st.ready)
          priority == current_priority(st.ready)
          behaviour == Head(process.behaviours)
      IN  IF /\ queue_length(process.behaviours) = 1
             /\ process.progress = behaviour.repeats
             /\ process.units >= behaviour.cpu_time
          THEN ScheduleLoop(terminate_process(st, clock), clock)
          ELSE IF /\ queue_length(process.behaviours) > 1
                  /\ BehaviourOver(process, behaviour)
          THEN ScheduleLoop(
                 [st EXCEPT !.ready =
                    update_current(@, [process EXCEPT
                                         !.behaviours = Tail(@),
                                         !.progress = 0])],
                 clock)
          ELSE IF process.units >= behaviour.cpu_time
          THEN ScheduleLoop(send_process_to_io(st, clock), clock)
          ELSE [st EXCEPT
                  !.running = process,
                  !.out =
                     IF StartsCycle(process, st.running)
                     THEN Append(@, Event("RUN", process.pid, priority + 1,
                                          clock,
                                          behaviour.cpu_time - process.units,
                                          "schedule"))
                     ELSE @]

\* mutant: a process is admitted only after its arrival time has passed
RECURSIVE AdmitArrivals_Late(_, _)
AdmitArrivals_Late(st, clock) ==
    IF queue_length(st.arrival) > 0 /\ current_priority(st.arrival) < clock
    THEN LET process == peek_at_current(st.arrival)
         IN  AdmitArrivals_Late(
               [st EXCEPT
                  !.arrival = remove_from_front(@),
                  !.ready = add_to_queue(@, process, MAX_PRIORITY),
                  !.out = Append(@, Event("CREATE", process.pid, 0, clock,
                                          0, "arrival"))],
               clock)
    ELSE st

\* the two admission loops of queue_new_processes
RECURSIVE AdmitArrivals(_, _)
AdmitArrivals(st, clock) ==
    IF queue_length(st.arrival) > 0 /\ current_priority(st.arrival) <= clock
    THEN LET process == peek_at_current(st.arrival)
         IN  AdmitArrivals(
               [st EXCEPT
                  !.arrival = remove_from_front(@),
                  !.ready = add_to_queue(@, process, MAX_PRIORITY),
                  !.out = Append(@, Event("CREATE", process.pid, 0, clock,
                                          0, "arrival"))],
               clock)
    ELSE st

\* mutant: a process leaves io only after its wake-up time has passed
RECURSIVE AdmitIo_Late(_, _)
AdmitIo_Late(st, clock) ==
    IF queue_length(st.io) > 0 /\ current_priority(st.io) < clock
    THEN LET process == peek_at_current(st.io)
         IN  AdmitIo_Late(
               [st EXCEPT
                  !.io = remove_from_front(@),
                  !.ready = add_to_queue(@, process, process.priority_cache),
                  !.out = Append(@, Event("QUEUED", process.pid,
                                          process.priority_cache + 1, clock,
                                          0, "io"))],
               clock)
    ELSE st

RECURSIVE AdmitIo(_, _)
AdmitIo(st, clock) ==
    IF queue_length(st.io) > 0 /\ current_priority(st.io) <= clock
    THEN LET process == peek_at_current(st.io)
         IN  AdmitIo(
               [st EXCEPT
                  !.io = remove_from_front(@),
                  !.ready = add_to_queue(@, process, process.priority_cache),
                  !.out = Append(@, Event("QUEUED", process.pid,
                                          process.priority_cache + 1, clock,
                                          0, "io"))],
               clock)
    ELSE st

\* mutant: the new head is not compared with the previous one
LogPreemption_Always(st, previous_active, clock) ==
    IF /\ queue_length(st.ready) > 0
       /\ previous_active.pid # NullProcess.pid
    THEN [st EXCEPT !.out =
            Append(@, Event("QUEUED", previous_active.pid,
                            previous_active.priority_cache + 1, clock, 0,
                            "preempt"))]
    ELSE st

LogPreemption(st, previous_active, clock) ==
    IF /\ queue_length(st.ready) > 0
       /\ previous_active.pid # NullProcess.pid
       /\ previous_active.pid # peek_at_current(st.ready).pid
    THEN [st EXCEPT !.out =
            Append(@, Event("QUEUED", previous_active.pid,
                            previous_active.priority_cache + 1, clock, 0,
                            "preempt"))]
    ELSE st

(***************************************************************************)
(* Initial state: main() has called load_process_descriptions and          *)
(* init_scheduler and set the clock to 0.                                  *)
(***************************************************************************)
Init ==
    /\ input \in Inputs
    /\ arrival_queue = load_process_descriptions(input)
    /\ ready_queue = <<>>
    /\ io_queue = <<>>
    /\ logs = <<>>
    /\ null = NullProcess
    /\ mlqfs_clock = 0
    /\ running = NullProcess
    /\ output = <<>>
    /\ pc = "loop"
    /\ ticks = 0
    /\ granted = [p \in Pids |-> 0]
    /\ run_level = [p \in Pids |-> 0]
    /\ halts = [p \in Pids |-> 0]
    /\ yields = [p \in Pids |-> 0]

\* mutant: the clock is not decremented after the loop
Main_LoopTest_NoRollback ==
    /\ pc = "loop"
    /\ IF scheduler_is_active
       THEN pc' = "check" /\ UNCHANGED mlqfs_clock
       ELSE pc' = "shutdown" /\ UNCHANGED mlqfs_clock
    /\ UNCHANGED <<input, arrival_queue, ready_queue, io_queue, logs, null,
                   running, output, ticks, granted, run_level, halts, yields>>

\* while (scheduler_is_active()) ... ; mlqfs_clock --;
Main_LoopTest ==
    /\ pc = "loop"
    /\ IF scheduler_is_active
       THEN pc' = "check" /\ UNCHANGED mlqfs_clock
       ELSE pc' = "shutdown" /\ mlqfs_clock' = mlqfs_clock - 1
    /\ UNCHANGED <<input, arrival_queue, ready_queue, io_queue, logs, null,
                   running, output, ticks, granted, run_level, halts, yields>>

check_top_process_quanta ==
    /\ pc = "check"
    /\ pc' = "admit"
    /\ IF queue_length(ready_queue) = 0
       THEN UNCHANGED <<ready_queue, output, halts, yields>>
       ELSE LET process == [peek_at_current(ready_queue) EXCEPT
                              !.quanta = @ + 1]
                priority == current_priority(ready_queue)
                st == [ready |-> update_current(ready_queue, process),
                       out |-> output]
            IN  IF QuantumExpired(process, priority)
                THEN LET st1 == halt_process(st, mlqfs_clock)
                         p == process.pid
                     IN  /\ ready_queue' = st1.ready
                         /\ output' = st1.out
                         /\ halts' = [halts EXCEPT ![p] =
                              IF EntryOf(st1.ready, p).priority # priority
                              THEN 0 ELSE @ + 1]
                         /\ yields' = [yields EXCEPT ![p] = 0]
                ELSE /\ ready_queue' = st.ready
                     /\ UNCHANGED <<output, halts, yields>>
    /\ UNCHANGED <<input, arrival_queue, io_queue, logs, null, mlqfs_clock,
                   running, ticks, granted, run_level>>

queue_new_processes ==
    /\ pc = "admit"
    /\ pc' = "schedule"
    /\ LET previous_active ==
               IF queue_length(ready_queue) > 0
               THEN [peek_at_current(ready_queue) EXCEPT
                       !.priority_cache = current_priority(ready_queue)]
               ELSE null
           st0 == [arrival |-> arrival_queue, ready |-> ready_queue,
                   io |-> io_queue, out |-> output]
           st1 == AdmitArrivals(st0, mlqfs_clock)
           st2 == AdmitIo(st1, mlqfs_clock)
           st3 == LogPreemption(st2, previous_active, mlqfs_clock)
       IN  /\ arrival_queue' = st3.arrival
           /\ ready_queue' = st3.ready
           /\ io_queue' = st3.io
           /\ output' = st3.out
    /\ UNCHANGED <<input, logs, null, mlqfs_clock, running, ticks, granted,
                   run_level, halts, yields>>

schedule_processes ==
    /\ pc = "schedule"
    /\ pc' = "run"
    /\ LET st0 == [ready |-> ready_queue, io |-> io_queue, logs |-> logs,
                   out |-> output, running |-> running]
           st1 == ScheduleLoop(st0, mlqfs_clock)
           new == Emitted(output, st1.out)
           ran(p) == \E i \in 1..Len(new) :
                        new[i].kind = "RUN" /\ new[i].pid = p
           blocked(p) == \E i \in 1..Len(new) :
                            new[i].kind = "I/O" /\ new[i].pid = p
       IN  /\ ready_queue' = st1.ready
           /\ io_queue' = st1.io
           /\ logs' = st1.logs
           /\ output' = st1.out
           /\ running' = st1.running
           /\ granted' = [p \in Pids |-> IF ran(p) THEN 0 ELSE granted[p]]
           /\ run_level' = [p \in Pids |->
                              IF ran(p) THEN current_priority(st1.ready)
                              ELSE run_level[p]]
           /\ yields' = [p \in Pids |->
                 IF blocked(p)
                 THEN IF EntryOf(st1.io, p).info.priority_cache
                           # EntryOf(ready_queue, p).priority
                      THEN 0 ELSE yields[p] + 1
                 ELSE yields[p]]
           /\ halts' = [p \in Pids |-> IF blocked(p) THEN 0 ELSE halts[p]]
    /\ UNCHANGED <<input, arrival_queue, null, mlqfs_clock, ticks>>

\* mutant: the charged process is taken out and queued again at its level
run_top_process_Requeues ==
    /\ pc = "run"
    /\ pc' = "tick"
    /\ ticks' = ticks + 1
    /\ IF queue_length(ready_queue) = 0
       THEN /\ null' = [null EXCEPT !.total_cpu_usage = @ + 1]
            /\ UNCHANGED <<ready_queue, granted>>
       ELSE LET process == peek_at_current(ready_queue)
            IN  /\ ready_queue' = add_to_queue(
                                      remove_from_front(ready_queue),
                                      Charge(process),
                                      current_priority(ready_queue))
                /\ granted' = [granted EXCEPT ![process.pid] = @ + 1]
                /\ UNCHANGED null
    /\ UNCHANGED <<input, arrival_queue, io_queue, logs, mlqfs_clock,
                   running, output, run_level, halts, yields>>

run_top_process ==
    /\ pc = "run"
    /\ pc' = "tick"
    /\ ticks' = ticks + 1
    /\ IF queue_length(ready_queue) = 0
       THEN /\ null' = [null EXCEPT !.total_cpu_usage = @ + 1]
            /\ UNCHANGED <<ready_queue, granted>>
       ELSE LET process == peek_at_current(ready_queue)
            IN  /\ ready_queue' = update_current(ready_queue,
                                                 Charge(process))
                /\ granted' = [granted EXCEPT ![process.pid] = @ + 1]
                /\ UNCHANGED null
    /\ UNCHANGED <<input, arrival_queue, io_queue, logs, mlqfs_clock,
                   running, output, run_level, halts, yields>>

\* mlqfs_clock ++;
Main_ClockTick ==
    /\ pc = "tick"
    /\ pc' = "loop"
    /\ mlqfs_clock' = mlqfs_clock + 1
    /\ UNCHANGED <<input, arrival_queue, ready_queue, io_queue, logs, null,
                   running, output, ticks, granted, run_level, halts, yields>>

\* mutant: the null process is reported only for more than one idle tick
shutdown_scheduler_StrictNull ==
    /\ pc = "shutdown"
    /\ pc' = "report"
    /\ ready_queue' = <<>>
    /\ io_queue' = <<>>
    /\ arrival_queue' = <<>>
    /\ logs' = IF null.total_cpu_usage > 1
               THEN add_to_queue(logs, null, null.total_cpu_usage)
               ELSE logs
    /\ output' = Append(output, Event("SHUTDOWN", 0, 0, mlqfs_clock, 0,
                                      "shutdown"))
    /\ UNCHANGED <<input, null, mlqfs_clock, running, ticks, granted,
                   run_level, halts, yields>>

shutdown_scheduler ==
    /\ pc = "shutdown"
    /\ pc' = "report"
    /\ ready_queue' = <<>>
    /\ io_queue' = <<>>
    /\ arrival_queue' = <<>>
    /\ logs' = IF null.total_cpu_usage > 0
               THEN add_to_queue(logs, null, null.total_cpu_usage)
               ELSE logs
    /\ output' = Append(output, Event("SHUTDOWN", 0, 0, mlqfs_clock, 0,
                                      "shutdown"))
    /\ UNCHANGED <<input, null, mlqfs_clock, running, ticks, granted,
                   run_level, halts, yields>>

RECURSIVE ReportRows(_)
ReportRows(q) ==
    IF queue_length(q) = 0 THEN <<>>
    ELSE LET process == peek_at_current(q)
         IN  <<Event("REPORT", process.pid, 0, 0, process.total_cpu_usage,
                     "report")>> \o ReportRows(remove_from_front(q))

print_report ==
    /\ pc = "report"
    /\ pc' = "done"
    /\ output' = output \o ReportRows(logs)
    /\ logs' = <<>>
    /\ UNCHANGED <<input, arrival_queue, ready_queue, io_queue, null,
                   mlqfs_clock, running, ticks, granted, run_level, halts,
                   yields>>

Next ==
    \/ Main_LoopTest
    \/ check_top_process_quanta
    \/ queue_new_processes
    \/ schedule_processes
    \/ run_top_process
    \/ Main_ClockTick
    \/ shutdown_scheduler
    \/ print_report

Spec == Init /\ [][Next]_vars

\* main() is a sequential program: it takes its next step whenever it has one.
FairSpec == Spec /\ WF_vars(Next)

(***************************************************************************)
(* Vocabulary of the properties.                                           *)
(***************************************************************************)
LoopPcs == {"loop", "check", "admit", "schedule", "run", "tick"}

LoadedPids == {input[i].pid : i \in 1..Len(input)}

LinesOf(p) == {i \in 1..Len(input) : input[i].pid = p}

LastLineOf(p) == CHOOSE i \in LinesOf(p) : \A j \in LinesOf(p) : j <= i

\* cpu_time x repeats, summed over those of the first n input lines that
\* describe process p
RECURSIVE BurstSumUpTo(_, _)
BurstSumUpTo(p, n) ==
    IF n = 0 THEN 0
    ELSE BurstSumUpTo(p, n - 1)
           + (IF input[n].pid = p
              THEN input[n].cpu_time * input[n].repeats ELSE 0)

BurstSum(p) == BurstSumUpTo(p, Len(input))

CountEvents(kind, p) ==
    Cardinality({i \in 1..Len(output) :
                   output[i].kind = kind /\ output[i].pid = p})

Finished == {logs[i].info : i \in 1..Len(logs)}

(***************************************************************************)
(* C1 (as stated): a finished process has total_cpu_usage equal to the     *)
(* sum over its behaviours of cpu_time x repeats.                          *)
(***************************************************************************)
C1_UsageIsBurstSum ==
    \A f \in Finished :
        f.pid # 0 => f.total_cpu_usage = BurstSum(f.pid)

(***************************************************************************)
(* C1 (amended): a finished process has total_cpu_usage equal to the sum   *)
(* over its behaviours of cpu_time x repeats plus one more burst of its    *)
(* last behaviour (the extra CPU run before termination).                  *)
(***************************************************************************)
C1_UsageIsBurstSumPlusLastBurst ==
    \A f \in Finished :
        f.pid # 0 =>
            f.total_cpu_usage
                = BurstSum(f.pid) + input[LastLineOf(f.pid)].cpu_time

C1_Witness ==
    \E f \in Finished :
        /\ f.pid # 0
        /\ Cardinality(LinesOf(f.pid)) = 2
        /\ \A i \in LinesOf(f.pid) :
              input[i].cpu_time > 0 /\ input[i].repeats > 0

(***************************************************************************)
(* C2: the tick loop terminates; it is left exactly at a loop test where   *)
(* arrival, ready and io are all empty; and once it is left every loaded   *)
(* process has exactly one FINISHED event.                                 *)
(***************************************************************************)
AllQueuesEmpty ==
    /\ Len(arrival_queue) = 0
    /\ Len(ready_queue) = 0
    /\ Len(io_queue) = 0

C2_LoopTerminates ==
    /\ <>(pc = "done")
    /\ [][pc = "loop" => (pc' = "shutdown" <=> AllQueuesEmpty)]_vars
    /\ [](pc \notin LoopPcs =>
            \A p \in LoadedPids : CountEvents("FINISHED", p) = 1)
    /\ [](\A p \in LoadedPids : CountEvents("FINISHED", p) <= 1)

C2_Witness ==
    /\ pc = "done"
    /\ Cardinality(LoadedPids) = 2
    /\ \A p \in LoadedPids : CountEvents("FINISHED", p) = 1
    /\ \E i \in 1..Len(output) : output[i].kind = "I/O"

(***************************************************************************)
(* C3: a process is granted at most QUANTUM[L] ticks after a RUN event at  *)
(* level L and before its next RUN; every process in ready at level L has  *)
(* quanta < QUANTUM[L] once the quantum check of the tick is done.         *)
(***************************************************************************)
C3_QuantumBound ==
    /\ \A p \in Pids :
          granted[p] <= (CASE run_level[p] = 0 -> 10
                           [] run_level[p] = 1 -> 30
                           [] OTHER -> 100)
    /\ pc # "check" =>
          \A i \in 1..Len(ready_queue) :
              ready_queue[i].info.quanta
                  < (CASE ready_queue[i].priority = 0 -> 10
                       [] ready_queue[i].priority = 1 -> 30
                       [] OTHER -> 100)

C3_Witness ==
    \E p \in Pids :
        /\ run_level[p] = 2
        /\ granted[p] = 100
        /\ pc = "admit"
        /\ output[Len(output)].by = "halt"

(***************************************************************************)
(* C4: when the quantum check finds that the head of ready at level L has  *)
(* reached quanta = QUANTUM[L], the head is re-inserted behind every       *)
(* process already at its new level with quanta = 0 and promotion = 0; the *)
(* new level is L+1 exactly when L is not 2 and this is the 1st (level 0)  *)
(* or 2nd (level 1) expiry at L with no I/O dispatch in between, else L;   *)
(* one QUEUED event shows the new level + 1.                               *)
(***************************************************************************)
HeadReachesQuantum ==
    /\ pc = "check"
    /\ Len(ready_queue) > 0
    /\ ready_queue[1].info.quanta + 1
         = (CASE ready_queue[1].priority = 0 -> 10
              [] ready_queue[1].priority = 1 -> 30
              [] OTHER -> 100)

C4_HaltRequeues ==
    [][HeadReachesQuantum =>
         LET p == ready_queue[1].info.pid
             L == ready_queue[1].priority
             expiries == halts[p] + 1
             level == IF \/ L = 0 /\ expiries = 1
                         \/ L = 1 /\ expiries = 2
                      THEN L + 1 ELSE L
             e == EntryOf(ready_queue', p)
         IN  /\ PidsOf(ready_queue') = PidsOf(ready_queue)
             /\ Len(ready_queue') = Len(ready_queue)
             /\ e.priority = level
             /\ e.info.quanta = 0
             /\ e.info.promotion = 0
             /\ \A i \in 1..Len(ready_queue') :
                   ready_queue'[i].info.pid # p =>
                      (i < PosOf(ready_queue', p)
                         <=> ready_queue'[i].priority <= level)
             /\ Len(output') = Len(output) + 1
             /\ output'[Len(output')].kind = "QUEUED"
             /\ output'[Len(output')].pid = p
             /\ output'[Len(output')].level = level + 1
             /\ output'[Len(output')].time = mlqfs_clock]_vars

\* a halt at level 2 with another process waiting in ready
C4_Witness ==
    /\ pc = "admit"
    /\ Len(ready_queue) = 2
    /\ Len(output) > 0
    /\ output[Len(output)].by = "halt"
    /\ output[Len(output)].level = 3
    /\ halts[output[Len(output)].pid] >= 1

(***************************************************************************)
(* C5: when a process is sent to I/O from level L its priority_cache is    *)
(* L-1 exactly when L is not 0 and this is the 2nd (level 1) or 1st        *)
(* (level 2) burst completion at L with no quantum expiry in between, else *)
(* L; it re-enters ready at that level, and the first QUEUED event after   *)
(* its I/O event shows that level + 1.                                     *)
(***************************************************************************)
LastEventOf(p) ==
    LET S == {i \in 1..Len(output) : output[i].pid = p}
    IN  output[CHOOSE i \in S : \A j \in S : j <= i]

C5_Dispatch ==
    pc = "schedule" =>
        \A p \in PidsOf(io_queue') \ PidsOf(io_queue) :
            LET L == EntryOf(ready_queue, p).priority
                completions == yields[p] + 1
                level == IF \/ L = 1 /\ completions = 2
                            \/ L = 2 /\ completions = 1
                         THEN L - 1 ELSE L
            IN  /\ EntryOf(io_queue', p).info.priority_cache = level
                /\ LastEventOf(p)'.kind = "I/O"

C5_Return ==
    pc = "admit" =>
        \A q \in PidsOf(io_queue) \ PidsOf(io_queue') :
            LET cache == EntryOf(io_queue, q).info.priority_cache
                new == Emitted(output, output')
                mine == {i \in 1..Len(new) : new[i].pid = q}
            IN  /\ LastEventOf(q).kind = "I/O"
                /\ q \in PidsOf(ready_queue')
                /\ EntryOf(ready_queue', q).priority = cache
                /\ Cardinality(mine) = 1
                /\ \A i \in mine : /\ new[i].kind = "QUEUED"
                                   /\ new[i].level = cache + 1

C5_IoPromotion == [][C5_Dispatch /\ C5_Return]_vars

\* a process dispatched to I/O from level 2 is back in ready at level 1
C5_Witness ==
    /\ pc = "schedule"
    /\ \E i \in 1..Len(ready_queue) :
          LET p == ready_queue[i].info.pid
          IN  /\ ready_queue[i].priority = 1
              /\ run_level[p] = 2
              /\ LastEventOf(p).kind = "QUEUED"
              /\ LastEventOf(p).by = "io"

(***************************************************************************)
(* C6: while the tick loop runs, every loaded process is held by exactly   *)
(* one of arrival, ready, io and report: the four sizes add up to the      *)
(* number of processes loaded, no process is held twice, and a process in  *)
(* report never leaves it for an active queue.                             *)
(***************************************************************************)
Held == arrival_queue \o ready_queue \o io_queue \o logs

C6_Ownership ==
    pc \in LoopPcs =>
        /\ Len(arrival_queue) + Len(ready_queue) + Len(io_queue) + Len(logs)
             = Cardinality(LoadedPids)
        /\ PidsOf(Held) = LoadedPids
        /\ \A i, j \in 1..Len(Held) :
              Held[i].info.pid = Held[j].info.pid => i = j

C6_ReportIsFinal ==
    pc \in LoopPcs =>
        /\ PidsOf(logs) \subseteq PidsOf(logs')
        /\ PidsOf(logs)
             \cap PidsOf(arrival_queue' \o ready_queue' \o io_queue') = {}

C6_OneOwner == []C6_Ownership /\ [][C6_ReportIsFinal]_vars

\* one process is in report while another is still in I/O
C6_Witness ==
    /\ pc = "run"
    /\ Len(logs) = 1
    /\ Len(io_queue) = 1
    /\ Len(output) > 0
    /\ output[Len(output)].kind = "FINISHED"

(***************************************************************************)
(* C7: the run step charges its tick to the head of ready (units and       *)
(* total_cpu_usage grow by 1, nothing else changes), or to the null        *)
(* process exactly when ready is empty; so the usages of all processes and *)
(* of the null process add up to the number of ticks executed, and to the  *)
(* shutdown time + 1 once the loop is left.                                *)
(***************************************************************************)
RECURSIVE UsageOf(_)
UsageOf(q) ==
    IF Len(q) = 0 THEN 0
    ELSE (IF Head(q).info.pid = 0 THEN 0 ELSE Head(q).info.total_cpu_usage)
           + UsageOf(Tail(q))

TotalUsage == UsageOf(Held) + null.total_cpu_usage

C7_RunStep ==
    pc = "run" =>
        /\ UNCHANGED <<arrival_queue, io_queue, logs>>
        /\ Len(ready_queue') = Len(ready_queue)
        /\ IF Len(ready_queue) = 0
           THEN null'.total_cpu_usage = null.total_cpu_usage + 1
           ELSE /\ null' = null
                /\ ready_queue'[1].info =
                     [ready_queue[1].info EXCEPT
                        !.units = @ + 1, !.total_cpu_usage = @ + 1]
                /\ ready_queue'[1].priority = ready_queue[1].priority
                /\ \A i \in 2..Len(ready_queue) :
                      ready_queue'[i] = ready_queue[i]

C7_Accounting ==
    /\ pc \in LoopPcs => TotalUsage = ticks
    /\ pc = "loop" => TotalUsage = mlqfs_clock
    /\ pc \in {"shutdown", "report"} => TotalUsage = mlqfs_clock + 1

C7_EveryTickCharged == []C7_Accounting /\ [][C7_RunStep]_vars

\* after shutdown, with ticks charged to two processes and to the null process
C7_Witness ==
    /\ pc = "report"
    /\ null.total_cpu_usage > 1
    /\ \E i, j \in 1..Len(logs) :
          /\ logs[i].info.pid = 1 /\ logs[i].info.total_cpu_usage > 0
          /\ logs[j].info.pid = 2 /\ logs[j].info.total_cpu_usage > 0

(***************************************************************************)
(* C8: every loaded process gets exactly one CREATE event, at the time     *)
(* equal to its arrival_time; it enters ready at level 0 in that tick      *)
(* behind the processes already at level 0; it is granted no CPU tick      *)
(* before its CREATE event.                                                *)
(***************************************************************************)
C8_Created ==
    /\ \A p \in LoadedPids : CountEvents("CREATE", p) <= 1
    /\ \A i \in 1..Len(output) :
          output[i].kind = "CREATE" /\ pc # "done" =>
              \E j \in 1..Len(Held) :
                  /\ Held[j].info.pid = output[i].pid
                  /\ Held[j].info.arrival_time = output[i].time
    /\ \A i \in 1..Len(arrival_queue) :
          /\ CountEvents("CREATE", arrival_queue[i].info.pid) = 0
          /\ arrival_queue[i].info.total_cpu_usage = 0
          /\ granted[arrival_queue[i].info.pid] = 0
          /\ pc \in {"schedule", "run", "tick"} =>
                arrival_queue[i].info.arrival_time > mlqfs_clock
    /\ \A p \in LoadedPids :
          p \notin PidsOf(arrival_queue) \/ pc \notin LoopPcs =>
              CountEvents("CREATE", p) = 1

C8_EntersAtTop ==
    pc = "admit" =>
        \A p \in PidsOf(arrival_queue) \ PidsOf(arrival_queue') :
            /\ p \in PidsOf(ready_queue')
            /\ EntryOf(ready_queue', p).priority = 0
            /\ \A q \in PidsOf(ready_queue) :
                  EntryOf(ready_queue, q).priority = 0 =>
                      PosOf(ready_queue', q) < PosOf(ready_queue', p)

C8_CreateAtArrival == []C8_Created /\ [][C8_EntersAtTop]_vars

\* a late arrival is created behind a process that is running at level 0
C8_Witness ==
    /\ pc = "schedule"
    /\ Len(output) > 0
    /\ output[Len(output)].kind = "CREATE"
    /\ output[Len(output)].time = LateArrival
    /\ Len(ready_queue) = 2
    /\ ready_queue[1].priority = 0
    /\ ready_queue[1].info.units > 0
    /\ ready_queue[2].info.pid = output[Len(output)].pid

(***************************************************************************)
(* C9: in the admission step the head P of ready (level L) stays head      *)
(* unless a process admitted in that step enters at a level below L; P     *)
(* keeps its level; the preemption line "QUEUED: Process P queued at level *)
(* L+1" is printed by the step exactly when the head after admission is    *)
(* another process.                                                        *)
(***************************************************************************)
C9_AdmitStep ==
    pc = "admit" =>
        LET new == Emitted(output, output')
            preempts == {i \in 1..Len(new) : new[i].by = "preempt"}
        IN  IF Len(ready_queue) = 0
            THEN preempts = {}
            ELSE LET P == ready_queue[1].info.pid
                     L == ready_queue[1].priority
                     admitted == PidsOf(ready_queue') \ PidsOf(ready_queue)
                 IN  /\ P \in PidsOf(ready_queue')
                     /\ EntryOf(ready_queue', P).priority = L
                     /\ ready_queue'[1].info.pid = P
                          <=> ~ \E q \in admitted :
                                   EntryOf(ready_queue', q).priority < L
                     /\ preempts # {} <=> ready_queue'[1].info.pid # P
                     /\ Cardinality(preempts) <= 1
                     /\ \A i \in preempts :
                           new[i] = Event("QUEUED", P, L + 1, mlqfs_clock,
                                          0, "preempt")

C9_AdmissionPreemption == [][C9_AdmitStep]_vars

\* a process running at level 1 has just lost the head to a new arrival
C9_Witness ==
    /\ pc = "schedule"
    /\ Len(output) > 0
    /\ output[Len(output)].by = "preempt"
    /\ output[Len(output)].level = 2
    /\ Len(ready_queue) = 2
    /\ ready_queue[1].priority = 0
    /\ ready_queue[2].info.pid = output[Len(output)].pid

(***************************************************************************)
(* C10 (as stated): the schedule step prints a RUN event for the eligible  *)
(* head P of ready if and only if P.quanta = 0.                            *)
(***************************************************************************)
RunPrinted(p) ==
    \E i \in 1..Len(output') :
        /\ i > Len(output)
        /\ output'[i].kind = "RUN"
        /\ output'[i].pid = p

C10_RunIffQuantaZero ==
    [][pc = "schedule" /\ Len(ready_queue') > 0 =>
         (RunPrinted(ready_queue'[1].info.pid)
            <=> ready_queue'[1].info.quanta = 0)]_vars

(***************************************************************************)
(* C10 (amended): the schedule step prints a RUN event for the eligible    *)
(* head P of ready if and only if P.quanta = 0 or P is not the process     *)
(* that the previous schedule step selected; it prints no other RUN event. *)
(***************************************************************************)
C10_RunIffNewCycle ==
    [][pc = "schedule" =>
         /\ Len(ready_queue') > 0 =>
               (RunPrinted(ready_queue'[1].info.pid)
                  <=> \/ ready_queue'[1].info.quanta = 0
                      \/ ready_queue'[1].info.pid # running.pid)
         /\ \A i \in 1..Len(output') :
               i > Len(output) /\ output'[i].kind = "RUN" =>
                  /\ Len(ready_queue') > 0
                  /\ output'[i].pid = ready_queue'[1].info.pid
                  /\ i = Len(output')]_vars

\* a RUN event was printed for a process whose quantum slice is under way
C10_Witness ==
    /\ pc = "run"
    /\ Len(ready_queue) > 0
    /\ ready_queue[1].info.quanta > 0
    /\ Len(output) > 0
    /\ output[Len(output)].kind = "RUN"
    /\ output[Len(output)].time = mlqfs_clock
    /\ output[Len(output)].pid = ready_queue[1].info.pid

(***************************************************************************)
(* C11: the time printed by the shutdown event equals the time of the last *)
(* FINISHED event of the run: the loop's final clock increment is rolled   *)
(* back before the shutdown event is printed.                              *)
(***************************************************************************)
EventsOfKind(kind) == {i \in 1..Len(output) : output[i].kind = kind}

LastOfKind(kind) ==
    CHOOSE i \in EventsOfKind(kind) : \A j \in EventsOfKind(kind) : j <= i

C11_ShutdownAtLastFinish ==
    \A i \in EventsOfKind("SHUTDOWN") :
        /\ EventsOfKind("FINISHED") # {}
        /\ LastOfKind("FINISHED") < i
        /\ output[i].time = output[LastOfKind("FINISHED")].time
        /\ output[i].time = mlqfs_clock

\* a run of two processes was shut down after the clock had advanced
C11_Witness ==
    /\ pc = "done"
    /\ Cardinality(LoadedPids) = 2
    /\ EventsOfKind("SHUTDOWN") # {}
    /\ output[LastOfKind("SHUTDOWN")].time > LateArrival
    /\ Cardinality(EventsOfKind("FINISHED")) = 2

(***************************************************************************)
(* C12: the final report has exactly one row for each loaded process, with *)
(* the total_cpu_usage the process had when it was terminated, and one row *)
(* for the null process if and only if null.total_cpu_usage > 0 at         *)
(* shutdown; the rows are in nondecreasing order of total_cpu_usage, and   *)
(* rows of equal usage are in the order in which they were put into logs   *)
(* (the order of termination, the null process last).                      *)
(***************************************************************************)
ReportRowOf(p) == {i \in EventsOfKind("REPORT") : output[i].pid = p}

FinishedAt(p) ==
    CHOOSE i \in EventsOfKind("FINISHED") : output[i].pid = p

\* the order in which two rows were put into logs
PutBefore(p, q) ==
    /\ p # NullProcess.pid
    /\ q = NullProcess.pid \/ FinishedAt(p) < FinishedAt(q)

C12_Rows ==
    pc = "done" =>
       /\ \A p \in LoadedPids : Cardinality(ReportRowOf(p)) = 1
       /\ Cardinality(ReportRowOf(NullProcess.pid))
             = IF null.total_cpu_usage > 0 THEN 1 ELSE 0
       /\ \A i \in EventsOfKind("REPORT") :
             /\ output[i].pid \in LoadedPids \cup {NullProcess.pid}
             /\ output[i].pid = NullProcess.pid =>
                   output[i].n = null.total_cpu_usage
       /\ \A i, j \in EventsOfKind("REPORT") :
             i < j =>
                /\ output[i].n <= output[j].n
                /\ output[i].n = output[j].n =>
                      PutBefore(output[i].pid, output[j].pid)

\* a terminated process is put into logs with the usage it has at that
\* moment, and its report row prints the usage held in logs
C12_UsageAtTermination ==
    /\ pc = "schedule" =>
          \A p \in PidsOf(logs') \ PidsOf(logs) :
             /\ p \in PidsOf(ready_queue)
             /\ EntryOf(logs', p).info.total_cpu_usage
                   = EntryOf(ready_queue, p).info.total_cpu_usage
    /\ pc = "report" =>
          \A p \in LoadedPids :
             /\ p \in PidsOf(logs)
             /\ \E i \in 1..Len(output') :
                   /\ i > Len(output)
                   /\ output'[i].kind = "REPORT"
                   /\ output'[i].pid = p
                   /\ output'[i].n = EntryOf(logs, p).info.total_cpu_usage

C12_Report == []C12_Rows /\ [][C12_UsageAtTermination]_vars

\* the report lists two processes of equal usage after a third row of
\* smaller usage, the one terminated first printed first
C12_Witness ==
    /\ pc = "done"
    /\ Cardinality(EventsOfKind("REPORT")) = 3
    /\ ReportRowOf(1) # {} /\ ReportRowOf(2) # {}
    /\ \E i \in ReportRowOf(1), j \in ReportRowOf(2) :
          /\ output[i].n = output[j].n
          /\ output[i].n > null.total_cpu_usage
          /\ FinishedAt(2) < FinishedAt(1)
          /\ j < i

(***************************************************************************)
(* C13 (as stated): a process that stops being the head of ready, by halt, *)
(* by an admission ahead of it or by dispatch to I/O, has quanta = 0       *)
(* afterwards; so at every tick boundary every process in io and every     *)
(* process in ready other than the head has quanta = 0.                    *)
(***************************************************************************)
OffHead ==
    {io_queue[i].info : i \in 1..Len(io_queue)}
       \cup {ready_queue[i].info : i \in 2..Len(ready_queue)}

C13_QuantaZeroOffHead ==
    pc = "loop" => \A process \in OffHead : process.quanta = 0

(***************************************************************************)
(* C13 (amended): quanta is set to 0 by halt and by dispatch to I/O, and   *)
(* an admission that displaces the head of ready leaves its quanta as it   *)
(* is; so every process in io has quanta = 0, and a process in ready other *)
(* than the head has quanta = 0 unless the last event printed for it is    *)
(* the QUEUED line of the admission that displaced it.                     *)
(***************************************************************************)
C13_OffHeadQuanta ==
    /\ \A i \in 1..Len(io_queue) : io_queue[i].info.quanta = 0
    /\ \A i \in 2..Len(ready_queue) :
          ready_queue[i].info.quanta > 0 =>
             /\ LastEventOf(ready_queue[i].info.pid).kind = "QUEUED"
             /\ LastEventOf(ready_queue[i].info.pid).by = "preempt"

C13_ResetStep ==
    /\ pc = "check" /\ Len(output') > Len(output) =>
          LET p == output'[Len(output')].pid
          IN  /\ p = ready_queue[1].info.pid
              /\ EntryOf(ready_queue', p).info.quanta = 0
    /\ pc = "schedule" =>
          \A p \in PidsOf(io_queue') \ PidsOf(io_queue) :
             EntryOf(io_queue', p).info.quanta = 0
    /\ pc = "admit" /\ Len(ready_queue) > 0 =>
          LET p == ready_queue[1].info.pid
          IN  /\ p \in PidsOf(ready_queue')
              /\ EntryOf(ready_queue', p).info.quanta
                    = ready_queue[1].info.quanta

C13_QuantaResetByHaltAndIo == []C13_OffHeadQuanta /\ [][C13_ResetStep]_vars

\* at a tick boundary a process displaced by an admission waits behind the
\* running head with the quanta it had when it was displaced
C13_Witness ==
    /\ pc = "loop"
    /\ Len(ready_queue) = 2
    /\ ready_queue[2].info.quanta > 0
    /\ LastEventOf(ready_queue[2].info.pid).by = "preempt"
    /\ ready_queue[1].info.units > 0

(***************************************************************************)
(* C14: for a process described by several consecutive input lines with    *)
(* the same pid the loader creates one process, whose behaviours are those *)
(* lines in input order and whose arrival_time, which is also its key in   *)
(* the arrival queue, is the arrival time of its first line.               *)
(***************************************************************************)
FirstLineOf(p) == CHOOSE i \in LinesOf(p) : \A j \in LinesOf(p) : i <= j

\* the behaviours the lines of process p describe, over the first n lines
RECURSIVE BehavioursUpTo(_, _)
BehavioursUpTo(p, n) ==
    IF n = 0 THEN <<>>
    ELSE IF input[n].pid = p
    THEN Append(BehavioursUpTo(p, n - 1),
                Behaviour(input[n].cpu_time, input[n].io_time,
                          input[n].repeats))
    ELSE BehavioursUpTo(p, n - 1)

Loaded == load_process_descriptions(input)

C14_ArrivalOfFirstLine ==
    /\ Len(Loaded) = Cardinality(LoadedPids)
    /\ \A p \in LoadedPids :
          /\ p \in PidsOf(Loaded)
          /\ EntryOf(Loaded, p).info.behaviours
                = BehavioursUpTo(p, Len(input))
          /\ EntryOf(Loaded, p).info.arrival_time
                = input[FirstLineOf(p)].arrival
          /\ EntryOf(Loaded, p).priority = input[FirstLineOf(p)].arrival

(***************************************************************************)
(* C15: at every step of the tick loop every process in ready or io has    *)
(* progress <= repeats of its current (front) behaviour.                   *)
(***************************************************************************)
C15_ProgressBound ==
    \A i \in 1..Len(ready_queue \o io_queue) :
        LET process == (ready_queue \o io_queue)[i].info
        IN  /\ Len(process.behaviours) > 0
            /\ process.progress <= Head(process.behaviours).repeats

\* a process on the first of its two behaviours is held in io after the
\* dispatch that brought its progress up to repeats
C15_Witness ==
    /\ pc = "run"
    /\ Len(io_queue) > 0
    /\ Len(io_queue[1].info.behaviours) = 2
    /\ Head(io_queue[1].info.behaviours).repeats = 2
    /\ io_queue[1].info.progress = 2
    /\ LastEventOf(io_queue[1].info.pid).time = mlqfs_clock

(***************************************************************************)
(* C16 (as stated): the quantum check comes before admission and           *)
(* scheduling.  A process whose burst completes on the tick its quantum    *)
(* expires is first halted (QUEUED printed, demotion counted, promotion    *)
(* reset, level lowered if the demotion threshold is met; from level 0 it  *)
(* goes to level 1), gets no further tick, and when it leaves ready at a   *)
(* schedule step it is dispatched to I/O from its new level.               *)
(***************************************************************************)
BurstComplete(process) ==
    /\ process.units > 0
    /\ process.units >= Head(process.behaviours).cpu_time

\* the processes in ready that were halted on the tick their burst completed
HaltedComplete ==
    {p \in PidsOf(ready_queue) :
        /\ BurstComplete(EntryOf(ready_queue, p).info)
        /\ EntryOf(ready_queue, p).info.quanta = 0
        /\ LastEventOf(p).kind = "QUEUED"}

C16_HaltFirst ==
    HeadReachesQuantum /\ BurstComplete(ready_queue[1].info) =>
       LET process == ready_queue[1].info
           level == ready_queue[1].priority
           demoted == process.demotion + 1
                         >= (CASE level = 0 -> 1 [] level = 1 -> 2
                               [] OTHER -> CharX)
           after == EntryOf(ready_queue', process.pid)
       IN  /\ process.pid \in PidsOf(ready_queue')
           /\ output' = Append(output,
                 Event("QUEUED", process.pid, after.priority + 1,
                       mlqfs_clock, 0, "halt"))
           /\ after.priority = IF demoted /\ level # 2 THEN level + 1
                               ELSE level
           /\ level = 0 => after.priority = 1
           /\ after.info.demotion = IF demoted THEN 0
                                    ELSE process.demotion + 1
           /\ after.info.promotion = 0
           /\ after.info.quanta = 0
           /\ after.info.units = process.units
           /\ process.pid \in HaltedComplete'

C16_NoFurtherTick ==
    \A p \in HaltedComplete :
       p \in PidsOf(ready_queue') =>
          /\ EntryOf(ready_queue', p).priority
                = EntryOf(ready_queue, p).priority
          /\ EntryOf(ready_queue', p).info.total_cpu_usage
                = EntryOf(ready_queue, p).info.total_cpu_usage

\* the dispatch to I/O of a process of HaltedComplete, from the level the
\* halt left it at
DispatchedFrom(p, level) ==
    /\ p \in PidsOf(io_queue')
    /\ LastEventOf(p)' = Event("I/O", p, 0, mlqfs_clock, 0, "io")
    /\ EntryOf(io_queue', p).info.priority_cache
          = IF level = 2 THEN 1 ELSE level

C16_ThenDispatched ==
    \A p \in HaltedComplete :
       p \notin PidsOf(ready_queue') =>
          /\ pc = "schedule"
          /\ DispatchedFrom(p, EntryOf(ready_queue, p).priority)

C16_HaltThenIo ==
    [][C16_HaltFirst /\ C16_NoFurtherTick /\ C16_ThenDispatched]_vars

(***************************************************************************)
(* C16 (amended): as above, but the burst that completes may be the extra  *)
(* run of the last behaviour (progress = repeats); the process is then     *)
(* halted first all the same and, when it leaves ready at a schedule step, *)
(* it is terminated instead of dispatched to I/O.                          *)
(***************************************************************************)
OnExtraRun(process) ==
    /\ Len(process.behaviours) = 1
    /\ process.progress = Head(process.behaviours).repeats

C16_ThenDispatchedOrTerminated ==
    \A p \in HaltedComplete :
       p \notin PidsOf(ready_queue') =>
          /\ pc = "schedule"
          /\ IF OnExtraRun(EntryOf(ready_queue, p).info)
             THEN /\ p \in PidsOf(logs')
                  /\ LastEventOf(p)'
                        = Event("FINISHED", p, 0, mlqfs_clock, 0, "terminate")
             ELSE DispatchedFrom(p, EntryOf(ready_queue, p).priority)

C16_HaltThenIoOrFinish ==
    [][/\ C16_HaltFirst
       /\ C16_NoFurtherTick
       /\ C16_ThenDispatchedOrTerminated]_vars

\* the event before the last one printed for process p
PrevEventOf(p) ==
    LET S == {i \in 1..Len(output) : output[i].pid = p}
        last == CHOOSE i \in S : \A j \in S : j <= i
        T == S \ {last}
    IN  output[CHOOSE i \in T : \A j \in T : j <= i]

\* a process was halted from level 0 to level 1 on the tick its 10-tick
\* burst completed and dispatched to I/O in that tick; later it was halted
\* on the tick its extra run completed and terminated in that tick
C16_Witness ==
    /\ pc = "run"
    /\ \E q \in PidsOf(logs) :
          /\ LastEventOf(q) = Event("FINISHED", q, 0, mlqfs_clock, 0,
                                    "terminate")
          /\ PrevEventOf(q).by = "halt"
          /\ PrevEventOf(q).time = mlqfs_clock
          /\ \E i \in 1..(Len(output) - 1) :
                /\ output[i] = Event("QUEUED", q, 2, 10, 0, "halt")
                /\ output[i + 1] = Event("I/O", q, 0, 10, 0, "io")

(***************************************************************************)
(* C17: a process whose I/O event is printed at time t while its current   *)
(* behaviour has io_time d is held in io and granted no tick until it      *)
(* re-enters ready, and its QUEUED event is printed at time t + d when     *)
(* d >= 1 and at time t + 1 when d = 0.                                    *)
(***************************************************************************)
\* the time at which a process that blocked at time t for d ticks returns
WakeTime(t, d) == IF d >= 1 THEN t + d ELSE t + 1

IoTimeOf(entry) == Head(entry.info.behaviours).io_time

C17_Blocked ==
    \A i \in 1..Len(io_queue) :
       LET p == io_queue[i].info.pid
       IN  /\ LastEventOf(p).kind = "I/O"
           /\ io_queue[i].priority
                 = LastEventOf(p).time + IoTimeOf(io_queue[i])
           /\ mlqfs_clock
                 <= WakeTime(LastEventOf(p).time, IoTimeOf(io_queue[i]))
           /\ pc \in {"schedule", "tick"} =>
                 mlqfs_clock
                    < WakeTime(LastEventOf(p).time, IoTimeOf(io_queue[i]))

C17_HeldThenReturned ==
    \A p \in PidsOf(io_queue) :
       IF p \in PidsOf(io_queue')
       THEN EntryOf(io_queue', p) = EntryOf(io_queue, p)
       ELSE /\ pc = "admit"
            /\ p \in PidsOf(ready_queue')
            /\ EntryOf(ready_queue', p).info = EntryOf(io_queue, p).info
            /\ mlqfs_clock = WakeTime(LastEventOf(p).time,
                                      IoTimeOf(EntryOf(io_queue, p)))
            /\ \E i \in 1..Len(output') :
                  /\ i > Len(output)
                  /\ output'[i].pid = p
                  /\ output'[i].kind = "QUEUED"
                  /\ output'[i].by = "io"
                  /\ output'[i].time = mlqfs_clock

C17_IoReturn == []C17_Blocked /\ [][C17_HeldThenReturned]_vars

\* a process that blocked at time 10 with io_time 0 came back at time 11,
\* and has now come back from an I/O of io_time 6 six ticks after it blocked
C17_Witness ==
    /\ pc = "schedule"
    /\ \E p \in PidsOf(ready_queue) :
          /\ LastEventOf(p).kind = "QUEUED"
          /\ LastEventOf(p).by = "io"
          /\ LastEventOf(p).time = mlqfs_clock
          /\ PrevEventOf(p).kind = "I/O"
          /\ PrevEventOf(p).time = mlqfs_clock - 6
          /\ \E i, j \in 1..Len(output) :
                /\ i < j
                /\ output[i] = Event("I/O", p, 0, 10, 0, "io")
                /\ output[j].pid = p /\ output[j].by = "io"
                /\ output[j].kind = "QUEUED" /\ output[j].time = 11

(***************************************************************************)
(* C18: on every tick the process charged by the run step has a level <=   *)
(* the level of every other process in ready, and among the processes of   *)
(* its level it is the one that was inserted into ready at that level      *)
(* earliest.  In particular, of two processes that arrive at the same time *)
(* with identical behaviours, the one parsed first gets every tick until   *)
(* it is halted or blocks for I/O, and only then does the second run.      *)
(***************************************************************************)
ReadySorted ==
    \A i, j \in 1..Len(ready_queue) :
       i < j => ready_queue[i].priority <= ready_queue[j].priority

\* a step inserts p into ready: p enters ready, or is halted and queued again
Inserted(p) ==
    \/ p \notin PidsOf(ready_queue)
    \/ /\ pc = "check"
       /\ Len(output') > Len(output)
       /\ output'[Len(output')].pid = p

\* processes of one level stay in the order in which they were inserted
C18_FifoStep ==
    \A p, q \in PidsOf(ready_queue') :
       /\ p # q
       /\ EntryOf(ready_queue', p).priority = EntryOf(ready_queue', q).priority
       /\ ~Inserted(q)
       => /\ EntryOf(ready_queue, q).priority
                = EntryOf(ready_queue', q).priority
          /\ Inserted(p) => PosOf(ready_queue', q) < PosOf(ready_queue', p)
          /\ ~Inserted(p) =>
                (PosOf(ready_queue, q) < PosOf(ready_queue, p)
                   <=> PosOf(ready_queue', q) < PosOf(ready_queue', p))

\* the run step charges the head of ready and leaves it at the head
C18_RunsHead ==
    pc = "run" /\ Len(ready_queue) > 0 =>
       /\ Len(ready_queue') = Len(ready_queue)
       /\ \A i \in 2..Len(ready_queue) : ready_queue'[i] = ready_queue[i]
       /\ ready_queue'[1].priority = ready_queue[1].priority
       /\ ready_queue'[1].info.pid = ready_queue[1].info.pid
       /\ ready_queue'[1].info.total_cpu_usage
             = ready_queue[1].info.total_cpu_usage + 1

\* the input describes two processes that differ in their pid only
Twins ==
    /\ Len(input) = 2
    /\ input[1].pid # input[2].pid
    /\ [input[1] EXCEPT !.pid = 0] = [input[2] EXCEPT !.pid = 0]

HaltedOrBlocked(p) ==
    \E i \in 1..Len(output) :
       /\ output[i].pid = p
       /\ \/ output[i].kind \in {"I/O", "FINISHED"}
          \/ output[i].kind = "QUEUED" /\ output[i].by = "halt"

C18_FirstParsedFirst ==
    Twins =>
       \A i \in 1..Len(Held) :
          Held[i].info.pid = input[2].pid /\ Held[i].info.total_cpu_usage > 0
             => HaltedOrBlocked(input[1].pid)

C18_HeadRuns ==
    /\ [](ReadySorted /\ C18_FirstParsedFirst)
    /\ [][C18_FifoStep /\ C18_RunsHead]_vars

\* of two identical processes that arrived together the first parsed ran
\* until it was halted, and the second has now been charged its first tick
\* at level 0 while the first waits at level 1
C18_Witness ==
    /\ Twins
    /\ pc = "tick"
    /\ Len(ready_queue) = 2
    /\ ready_queue[1].info.pid = input[2].pid
    /\ ready_queue[1].priority = 0
    /\ ready_queue[1].info.total_cpu_usage = 1
    /\ ready_queue[2].info.pid = input[1].pid
    /\ ready_queue[2].priority = 1
    /\ ready_queue[2].info.total_cpu_usage = 10

(***************************************************************************)
(* C19: the last tick of the loop is one in which the last live process is *)
(* terminated by the schedule step and the run step charges the null       *)
(* process; so null.total_cpu_usage >= 1 at shutdown and the report always *)
(* has a row for the null process.                                         *)
(***************************************************************************)
LastEvent == output[Len(output)]

C19_AfterLastTick ==
    /\ pc \in {"run", "tick"} /\ AllQueuesEmpty =>
          /\ Len(output) > 0
          /\ LastEvent.kind = "FINISHED"
          /\ LastEvent.time = mlqfs_clock
          /\ pc = "tick" => null.total_cpu_usage >= 1
    /\ pc \in {"shutdown", "report", "done"} => null.total_cpu_usage >= 1
    /\ pc = "done" =>
          \E i \in ReportRowOf(NullProcess.pid) :
             output[i].n = null.total_cpu_usage

C19_LastTickStep ==
    /\ pc = "run" /\ AllQueuesEmpty =>
          /\ null' = [null EXCEPT !.total_cpu_usage = @ + 1]
          /\ AllQueuesEmpty'
    /\ pc = "loop" /\ pc' = "shutdown" =>
          /\ LastEvent.kind = "FINISHED"
          /\ LastEvent.time = mlqfs_clock - 1

C19_NullAlwaysReported == []C19_AfterLastTick /\ [][C19_LastTickStep]_vars

\* the report of a run in which the CPU was idle in the last tick only
C19_Witness ==
    /\ pc = "done"
    /\ null.total_cpu_usage = 1
    /\ \E i \in ReportRowOf(NullProcess.pid) : output[i].n = 1
    /\ \E p \in LoadedPids, i \in EventsOfKind("REPORT") :
          output[i].pid = p /\ output[i].n > 1

(***************************************************************************)
(* C20 (as stated): no process has two QUEUED events printed at the same   *)
(* clock value, whether by halt, by the admission preemption log or by     *)
(* return from I/O.                                                        *)
(***************************************************************************)
C20_OneQueuedPerTick ==
    \A i, j \in EventsOfKind("QUEUED") :
       output[i].pid = output[j].pid /\ output[i].time = output[j].time
          => i = j

(***************************************************************************)
(* C20 (amended): a process has two QUEUED events at the same clock value  *)
(* only when it is halted by the quantum check and then displaced by an    *)
(* admission in the same tick: the first line is the halt's, the second    *)
(* the preemption log's, and both name the level the halt left it at.  A   *)
(* return from I/O shares its clock value with no other QUEUED event of    *)
(* the process, and no process has three QUEUED events at one clock value. *)
(***************************************************************************)
C20_TwiceOnlyByHaltThenPreempt ==
    \A i, j \in EventsOfKind("QUEUED") :
       /\ i < j
       /\ output[i].pid = output[j].pid
       /\ output[i].time = output[j].time
       => /\ output[i].by = "halt"
          /\ output[j].by = "preempt"
          /\ output[i].level = output[j].level

\* a process was halted from level 0 to level 1 and, in the same tick,
\* displaced by a process that arrived
C20_Witness ==
    /\ pc = "schedule"
    /\ Len(output) >= 3
    /\ output[Len(output)].kind = "QUEUED"
    /\ output[Len(output)].by = "preempt"
    /\ output[Len(output)].time = mlqfs_clock
    /\ output[Len(output)].level = 2
    /\ output[Len(output) - 1].kind = "CREATE"
    /\ output[Len(output) - 2]
          = [output[Len(output)] EXCEPT !.by = "halt"]

====
